---------------------------- MODULE Spec2Model ----------------------------
(***************************************************************************)
(* Selection-state machine of the InquirerPy checkbox and rawlist prompts. *)
(*                                                                         *)
(* Modelled from src/InquirerPy/prompts/checkbox.py and                    *)
(* src/InquirerPy/prompts/rawlist.py.  The shared bases                    *)
(* (InquirerPy.base.InquirerPyUIControl and BaseComplexPrompt) are         *)
(* imported by both files but are not part of the sources at hand; the     *)
(* operators that stand for them follow spec.md and are marked so.         *)
(*                                                                         *)
(* Indices are 0-based as in the Python code: At(s, i) is s[i] in Python.  *)
(***************************************************************************)
EXTENDS Integers, Sequences, FiniteSets, TLC

VARIABLES
    kind,                   \* "checkbox" | "rawlist": which prompt class was constructed
    raw,                    \* the `choices` argument as passed by the caller
    default,                \* the `default` argument
    validate,               \* the `validate` argument (a named validator)
    error,                  \* exception raised by the constructor, "none" if it returned
    choices,                \* content_control.choices
    selected_choice_index,  \* content_control.selected_choice_index (cursor_index)
    kb,                     \* jump keybindings registered by RawlistPrompt.__init__
    status,                 \* self.status: [answered, result]
    invalid,                \* the prompt's "invalid" flag
    exit_result,            \* value handed to event.app.exit(result=...)
    last,                   \* the last event handled ("init" right after construction)
    height,                 \* the `height` argument of calculate_height
    max_height,             \* the `max_height` argument of calculate_height
    offset,                 \* the `offset` argument of calculate_height
    term_lines,             \* lines of the terminal, shutil.get_terminal_size()
    dimmension              \* outcome of calculate_height, Pending before the call

\* the prompt proper
promptVars == <<kind, raw, default, validate, error, choices,
                selected_choice_index, kb, status, invalid, exit_result, last>>

\* the arguments and the outcome of the height calculation
windowVars == <<height, max_height, offset, term_lines, dimmension>>

vars == <<promptVars, windowVars>>

---------------------------------------------------------------------------
(* Bounds of the model. *)

\* longest raw choice list passed to a rawlist prompt
MaxLen == 4
\* longest raw choice list passed to a checkbox prompt
MaxBoxes == 3
\* integer payloads 1..MaxInt are used as choice values and defaults
MaxInt == 2
\* terminals have 1..MaxLines lines
MaxLines == 50
\* calculate_height is called with an offset in 0..MaxOffset
MaxOffset == 2

---------------------------------------------------------------------------
(* Python values.  A value is a tagged record so that values of different  *)
(* Python types compare unequal, as `2 == "2"` is False in Python.         *)

IntVal(n) == [tag |-> "int", n |-> n]
StrVal(n) == [tag |-> "str", n |-> n]
None == [tag |-> "none", n |-> 0]
SeparatorValue == [tag |-> "sep", n |-> 0]

\* isinstance(v, Separator)
IsSeparator(v) == v.tag = "sep"

\* the text of the string payloads StrVal(1), StrVal(2), ...
Letters == <<"a", "b", "c">>

\* str(Separator()): the separator's display line
SeparatorLine == "---------------"

\* str(v)
StrOf(v) ==
    CASE v.tag = "int" -> ToString(v.n)
      [] v.tag = "str" -> Letters[v.n]
      [] v.tag = "sep" -> SeparatorLine
      [] OTHER -> "None"

\* s[i] with Python's 0-based index
At(s, i) == s[i + 1]

\* range(len(s))
Indices(s) == 0 .. (Len(s) - 1)

---------------------------------------------------------------------------
(* Raw choices as the caller passes them: a bare value (possibly a         *)
(* Separator) or a dict with "name", "value" and optionally "enabled".     *)

RawPlain(v) == [dict |-> FALSE, value |-> v]
RawDict(nm, v) == [dict |-> TRUE, name |-> nm, value |-> v]
RawDictEnabled(nm, v, en) == [dict |-> TRUE, name |-> nm, value |-> v, enabled |-> en]

\* the value a raw entry carries
RawValue(r) == r.value

\* raw_choice.get("enabled", False)
RawGetEnabled(r) == IF "enabled" \in DOMAIN r THEN r.enabled ELSE FALSE

---------------------------------------------------------------------------
(* InquirerPyUIControl.__init__ (InquirerPy/base.py, not among the sources *)
(* at hand): normalisation, the degenerate-list check and the initial      *)
(* cursor, as spec.md sections 3, 4.1 and 7 describe them.                 *)

\* one normalised choice: name defaults to str(value), enabled starts False
NormalizeChoice(r) ==
    [name |-> IF r.dict THEN r.name ELSE StrOf(r.value),
     value |-> RawValue(r),
     enabled |-> FALSE]

\* the normalised list, in input order
GetChoices(rawChoices) ==
    [i \in 1 .. Len(rawChoices) |-> NormalizeChoice(rawChoices[i])]

\* indices of the non-separator choices
NonSeparators(chs) == {i \in Indices(chs) : ~IsSeparator(At(chs, i).value)}

\* smallest element of a non-empty set of integers
Min(S) == CHOOSE x \in S : \A y \in S : x <= y

\* largest element of a non-empty set of integers
Max(S) == CHOOSE x \in S : \A y \in S : y <= x

\* initial cursor: first non-separator matching `default`, else first non-separator
InitialCursor(chs, dflt) ==
    LET matching == {i \in NonSeparators(chs) : At(chs, i).value = dflt}
    IN  IF matching # {} THEN Min(matching) ELSE Min(NonSeparators(chs))

\* outcome of a constructor that raised
Raised(exc) == [error |-> exc, choices |-> <<>>, selected_choice_index |-> 0]

\* variant: the degenerate-list check is left out
UIControlInitNoSafetyCheck(rawChoices, dflt) ==
    LET chs == GetChoices(rawChoices)
    IN  [error |-> "none", choices |-> chs,
         selected_choice_index |->
             IF NonSeparators(chs) = {} THEN 0 ELSE InitialCursor(chs, dflt)]

\* super().__init__(choices, default)
UIControlInit(rawChoices, dflt) ==
    LET chs == GetChoices(rawChoices)
    IN  IF NonSeparators(chs) = {}
        THEN Raised("InvalidArgument")
        ELSE [error |-> "none", choices |-> chs,
              selected_choice_index |-> InitialCursor(chs, dflt)]

---------------------------------------------------------------------------
(* InquirerPyRawlistControl.__init__ (rawlist.py:17-48) *)

\* separator_count when the loop of rawlist.py:32 reaches position `index`
SeparatorCount(chs, index) ==
    Cardinality({j \in 0 .. (index - 1) : IsSeparator(At(chs, j).value)})

\* variant: display_index = index + 1, the separator count is not subtracted
AssignIndexesKeepingGaps(chs) ==
    [p \in 1 .. Len(chs) |->
        IF IsSeparator(chs[p].value)
        THEN chs[p]
        ELSE [name |-> chs[p].name, value |-> chs[p].value, enabled |-> chs[p].enabled,
              display_index |-> (p - 1) + 1,
              actual_index |-> p - 1]]

\* rawlist.py:31-37: display_index and actual_index on non-separator choices only
AssignIndexes(chs) ==
    [p \in 1 .. Len(chs) |->
        IF IsSeparator(chs[p].value)
        THEN chs[p]
        ELSE [name |-> chs[p].name, value |-> chs[p].value, enabled |-> chs[p].enabled,
              display_index |-> (p - 1) + 1 - SeparatorCount(chs, p - 1),
              actual_index |-> p - 1]]

\* rawlist.py:39-41: the while loop; a result of Len(chs) means the subscript
\* self.choices[first_valid_choice_index] ran off the list (IndexError)
RECURSIVE FirstValidChoiceIndex(_, _)
FirstValidChoiceIndex(chs, i) ==
    IF i >= Len(chs) THEN Len(chs)
    ELSE IF IsSeparator(At(chs, i).value) THEN FirstValidChoiceIndex(chs, i + 1)
    ELSE i

\* variant: the default is compared with actual_index
ActualIndexMatches(chs, dflt) ==
    {i \in NonSeparators(chs) : IntVal(At(chs, i).actual_index) = dflt}

\* rawlist.py:43-48: first non-separator choice whose display_index == default
DisplayIndexMatches(chs, dflt) ==
    {i \in NonSeparators(chs) : IntVal(At(chs, i).display_index) = dflt}

\* rawlist.py:42-48
RelocateByDisplayIndex(chs, selected, first, dflt) ==
    IF selected = first /\ DisplayIndexMatches(chs, dflt) # {}
    THEN At(chs, Min(DisplayIndexMatches(chs, dflt))).actual_index
    ELSE selected

\* rawlist.py:29-48
RawlistControlInit(rawChoices, dflt) ==
    LET base == UIControlInit(rawChoices, dflt)
    IN  IF base.error # "none" THEN base
        ELSE LET chs == AssignIndexes(base.choices)
                 first == FirstValidChoiceIndex(chs, 0)
             IN  IF first = Len(chs) THEN Raised("IndexError")
                 ELSE [error |-> "none", choices |-> chs,
                       selected_choice_index |->
                           RelocateByDisplayIndex(chs, base.selected_choice_index,
                                                  first, dflt)]

---------------------------------------------------------------------------
(* InquirerPyCheckboxControl.__init__ (checkbox.py:33-51) *)

\* variant: the flag is taken from the presence of the "enabled" key, not its value
InitialEnabledByKey(r) == r.dict /\ "enabled" \in DOMAIN r

\* checkbox.py:48-51
InitialEnabled(r) == IF r.dict THEN RawGetEnabled(r) ELSE FALSE

\* checkbox.py:47-51: zip(choices, self.choices)
SetEnabled(rawChoices, chs) ==
    [p \in 1 .. Len(chs) |-> [chs[p] EXCEPT !.enabled = InitialEnabled(rawChoices[p])]]

\* checkbox.py:45-51
CheckboxControlInit(rawChoices, dflt) ==
    LET base == UIControlInit(rawChoices, dflt)
    IN  IF base.error # "none" THEN base
        ELSE [base EXCEPT !.choices = SetEnabled(rawChoices, base.choices)]

---------------------------------------------------------------------------
(* RawlistPrompt.__init__ (rawlist.py:129-176): the jump keybindings *)

\* variant: the handler assigns display_index instead of actual_index
KeybindingToDisplayIndex(choice) ==
    [key |-> ToString(choice.display_index), target |-> choice.display_index]

\* rawlist.py:167-172: the binding keybinding_factory(choice) registers
Keybinding(choice) ==
    [key |-> ToString(choice.display_index), target |-> choice.actual_index]

\* variant: the handlers close over the loop variable instead of going through
\* keybinding_factory, so every handler reads the choice bound last
RECURSIVE RegisterKeybindingsLateBound(_, _)
RegisterKeybindingsLateBound(chs, i) ==
    IF i >= Len(chs) THEN <<>>
    ELSE IF ~IsSeparator(At(chs, i).value)
         THEN <<[key |-> ToString(At(chs, i).display_index),
                 target |-> At(chs, Max(NonSeparators(chs))).actual_index]>>
              \o RegisterKeybindingsLateBound(chs, i + 1)
         ELSE RegisterKeybindingsLateBound(chs, i + 1)

\* rawlist.py:174-176: one binding per non-separator choice, in list order
RECURSIVE RegisterKeybindings(_, _)
RegisterKeybindings(chs, i) ==
    IF i >= Len(chs) THEN <<>>
    ELSE IF ~IsSeparator(At(chs, i).value)
         THEN <<Keybinding(At(chs, i))>> \o RegisterKeybindings(chs, i + 1)
         ELSE RegisterKeybindings(chs, i + 1)

\* positions in kb of the bindings registered for `key`
BindingsFor(bindings, key) == {b \in 1 .. Len(bindings) : bindings[b].key = key}

\* rawlist.py:170: the index the handler bound to `key` assigns
\* (the engine runs the binding registered last for a key)
JumpTarget(bindings, key) ==
    LET hits == BindingsFor(bindings, key)
    IN  bindings[CHOOSE b \in hits : \A c \in hits : c <= b].target

---------------------------------------------------------------------------
(* Inputs *)

\* labels used as the "name" of dict entries
LabelOf(v) == "item " \o StrOf(v)

\* non-separator payloads
Payloads == {IntVal(n) : n \in 1 .. MaxInt} \cup {StrVal(1)}

\* entries of a rawlist choice list
RawlistEntries ==
    {RawPlain(v) : v \in Payloads} \cup {RawPlain(SeparatorValue)}

\* entries of a checkbox choice list
CheckboxEntries ==
    {RawPlain(IntVal(1)), RawPlain(SeparatorValue),
     RawDict(LabelOf(IntVal(2)), IntVal(2)),
     RawDictEnabled(LabelOf(StrVal(1)), StrVal(1), TRUE),
     RawDictEnabled(SeparatorLine, SeparatorValue, TRUE)}

\* all sequences over S of length 0..n
SeqsUpTo(S, n) == UNION {[1 .. m -> S] : m \in 0 .. n}

\* values passed as `default` to a rawlist prompt
RawlistDefaults == {None} \cup Payloads

\* values passed as `default` to a checkbox prompt
CheckboxDefaults == {None, IntVal(2)}

\* named validators, (selected values) -> bool, passed as `validate`:
\* "none" stands for no validator
RawlistValidators == {"no_int"}
CheckboxValidators == {"none", "nonempty"}

\* the validator applied to a sequence of selected values
Validates(v, values) ==
    CASE v = "nonempty" -> Len(values) > 0
      [] v = "no_int" -> \A i \in 1 .. Len(values) : values[i].tag # "int"
      [] OTHER -> TRUE

---------------------------------------------------------------------------
(* utils.py: calculate_height *)

\* a str argument, as the sequence of its characters
Text(cs) == [tag |-> "text", chars |-> cs]

Digits == <<"0", "1", "2", "3", "4", "5", "6", "7", "8", "9">>

IsDigit(c) == \E d \in 1 .. Len(Digits) : Digits[d] = c

DigitValue(c) == (CHOOSE d \in 1 .. Len(Digits) : Digits[d] = c) - 1

\* str(n) of a natural number n
RECURSIVE Decimal(_)
Decimal(n) ==
    IF n < Len(Digits) THEN <<Digits[n + 1]>>
    ELSE Decimal(n \div Len(Digits)) \o <<Digits[(n % Len(Digits)) + 1]>>

\* the percentage string "P%"
PercentText(p) == Text(Decimal(p) \o <<"%">>)

\* truth value Python gives an argument or a computed dimension:
\* None, the integer 0 and the empty string are false
Truthy(v) ==
    /\ v # None
    /\ v.tag = "int" => v.n # 0
    /\ v.tag = "text" => v.chars # <<>>

\* utils.py:55,65: str.replace("%", "") removes every percent sign
ReplacePercent(cs) == SelectSeq(cs, LAMBDA c : c # "%")

\* the ValueError int() raises
ValueError == [tag |-> "ValueError"]

RECURSIVE DigitsValue(_)
DigitsValue(cs) ==
    IF cs = <<>> THEN 0
    ELSE Len(Digits) * DigitsValue(SubSeq(cs, 1, Len(cs) - 1)) + DigitValue(cs[Len(cs)])

\* utils.py:56,66: int(str) over the alphabet of digits, letters and "%":
\* a non-empty run of digits is its value, anything else a ValueError
ParseInt(cs) ==
    IF cs # <<>> /\ \A i \in 1 .. Len(cs) : IsDigit(cs[i])
    THEN IntVal(DigitsValue(cs))
    ELSE ValueError

\* The pairs <<term_lines, percent>> for which the binary64 product
\* term_lines * (percent / 100) is the double just below the integer
\* term_lines * percent / 100, so that math.floor yields one less.  The list
\* is complete for term_lines <= 60 and percent <= 150.
RoundedBelow == {<<25, 116>>, <<45, 140>>, <<50, 58>>, <<50, 114>>, <<50, 116>>}

\* utils.py:57,68: math.floor(term_lines * (percent / 100)) in binary64
FloorOfShare(lines, percent) ==
    ((lines * percent) \div 100) - (IF <<lines, percent>> \in RoundedBelow THEN 1 ELSE 0)

\* utils.py:54-59 and 64-71: the rows a true argument stands for; a str is
\* stripped of "%", parsed and taken as a share of the terminal, anything
\* else is taken as it is
Dimension(arg, lines, off) ==
    IF arg.tag = "text"
    THEN LET parsed == ParseInt(ReplacePercent(arg.chars))
         IN  IF parsed = ValueError THEN ValueError
             ELSE IntVal(FloorOfShare(lines, parsed.n) - off)
    ELSE arg

\* utils.py:72-75: reduce a true height above max_height, then lift a true
\* negative height to 1
ClampHeight(h, mh) ==
    LET reduced == IF Truthy(h) /\ h.n > mh.n THEN mh ELSE h
    IN  IF Truthy(reduced) /\ reduced.n < 0 THEN IntVal(1) ELSE reduced

\* outcomes of a call
Pending == [raised |-> "pending"]
InvalidArgument == [raised |-> "InvalidArgument"]
Returned(h, mh) == [raised |-> "none", height |-> h, max_height |-> mh]

\* utils.py:37-81
calculate_height(h, mh, off, lines) ==
    LET dimmension_height == IF ~Truthy(h) THEN None ELSE Dimension(h, lines, off)
    IN  IF dimmension_height = ValueError THEN InvalidArgument
        ELSE LET dimmension_max_height ==
                     IF ~Truthy(mh) THEN IntVal(lines - off)
                     ELSE Dimension(mh, lines, off)
             IN  IF dimmension_max_height = ValueError THEN InvalidArgument
                 ELSE Returned(ClampHeight(dimmension_height, dimmension_max_height),
                               dimmension_max_height)

\* the prompts of this model are constructed without height and max_height
\* (rawlist.py:141-142, checkbox.py:133-134) on a terminal of MaxLines lines
DefaultWindow ==
    /\ height = None
    /\ max_height = None
    /\ offset = 1
    /\ term_lines = MaxLines
    /\ dimmension = calculate_height(None, None, 1, MaxLines)

---------------------------------------------------------------------------
(* Construction *)

\* CheckboxPrompt.__init__ / RawlistPrompt.__init__: the content control
ControlInit(k, rawChoices, dflt) ==
    IF k = "rawlist" THEN RawlistControlInit(rawChoices, dflt)
    ELSE CheckboxControlInit(rawChoices, dflt)

Init ==
    /\ kind \in {"checkbox", "rawlist"}
    /\ raw \in IF kind = "rawlist" THEN SeqsUpTo(RawlistEntries, MaxLen)
               ELSE SeqsUpTo(CheckboxEntries, MaxBoxes)
    /\ default \in IF kind = "rawlist" THEN RawlistDefaults ELSE CheckboxDefaults
    /\ validate \in IF kind = "rawlist" THEN RawlistValidators ELSE CheckboxValidators
    /\ \E c \in {ControlInit(kind, raw, default)} :
           /\ error = c.error
           /\ choices = c.choices
           /\ selected_choice_index = c.selected_choice_index
           /\ kb = IF kind = "rawlist" /\ c.error = "none"
                   THEN RegisterKeybindings(c.choices, 0) ELSE <<>>
    /\ status = [answered |-> FALSE, result |-> None]
    /\ invalid = FALSE
    /\ exit_result = None
    /\ last = "init"
    /\ DefaultWindow

---------------------------------------------------------------------------
(* Prompt Controller.  Movement, toggling, the result properties and the   *)
(* default confirm handler live in BaseComplexPrompt (InquirerPy/base.py,  *)
(* not among the sources at hand) and follow spec.md sections 4.2, 4.6, 6. *)

\* the interactive loop is running: constructed and not yet answered
Running == error = "none" /\ ~status.answered

\* variant: separators are always skipped downwards, whatever the direction
RECURSIVE MoveIndexSkippingDown(_, _, _)
MoveIndexSkippingDown(chs, i, delta) ==
    LET j == (i + delta) % Len(chs)
    IN  IF IsSeparator(At(chs, j).value) THEN MoveIndexSkippingDown(chs, j, 1) ELSE j

\* move(delta): step, wrap modulo the choice count, keep going over separators
RECURSIVE MoveIndex(_, _, _)
MoveIndex(chs, i, delta) ==
    LET j == (i + delta) % Len(chs)
    IN  IF IsSeparator(At(chs, j).value) THEN MoveIndex(chs, j, delta) ELSE j

\* variant: the toggle key sets the flag instead of flipping it
ToggleAtSetting(chs, i) ==
    IF IsSeparator(At(chs, i).value) THEN chs
    ELSE [chs EXCEPT ![i + 1].enabled = TRUE]

\* toggle_current(): flip enabled at the cursor; no-op on a separator
ToggleAt(chs, i) ==
    IF IsSeparator(At(chs, i).value) THEN chs
    ELSE [chs EXCEPT ![i + 1].enabled = ~@]

\* toggle_all(): flip enabled on every non-separator choice
ToggleEvery(chs) ==
    [p \in 1 .. Len(chs) |->
        IF IsSeparator(chs[p].value) THEN chs[p]
        ELSE [chs[p] EXCEPT !.enabled = ~@]]

\* the enabled choices, in list order
RECURSIVE EnabledChoices(_)
EnabledChoices(chs) ==
    IF chs = <<>> THEN <<>>
    ELSE (IF Head(chs).enabled THEN <<Head(chs)>> ELSE <<>>) \o EnabledChoices(Tail(chs))

\* self.result_value of a multiselect prompt: values of the enabled choices
ResultValue(chs) ==
    LET en == EnabledChoices(chs) IN [i \in 1 .. Len(en) |-> en[i].value]

\* self.result_name of a multiselect prompt: names of the enabled choices
ResultName(chs) ==
    LET en == EnabledChoices(chs) IN [i \in 1 .. Len(en) |-> en[i].name]

\* down key -> move(+1)
HandleDown ==
    /\ Running
    /\ selected_choice_index' = MoveIndex(choices, selected_choice_index, 1)
    /\ last' = "down"
    /\ UNCHANGED <<windowVars, kind, raw, default, validate, error, choices, kb, status,
                   invalid, exit_result>>

\* up key -> move(-1)
HandleUp ==
    /\ Running
    /\ selected_choice_index' = MoveIndex(choices, selected_choice_index, -1)
    /\ last' = "up"
    /\ UNCHANGED <<windowVars, kind, raw, default, validate, error, choices, kb, status,
                   invalid, exit_result>>

\* checkbox toggle key -> toggle_current()
ToggleCurrent ==
    /\ Running
    /\ kind = "checkbox"
    /\ choices' = ToggleAt(choices, selected_choice_index)
    /\ last' = "toggle"
    /\ UNCHANGED <<windowVars, kind, raw, default, validate, error, selected_choice_index, kb,
                   status, invalid, exit_result>>

\* checkbox toggle-all key -> toggle_all()
ToggleAll ==
    /\ Running
    /\ kind = "checkbox"
    /\ choices' = ToggleEvery(choices)
    /\ last' = "toggle_all"
    /\ UNCHANGED <<windowVars, kind, raw, default, validate, error, selected_choice_index, kb,
                   status, invalid, exit_result>>

\* BaseComplexPrompt._handle_enter for a single-select prompt (rawlist):
\* validate the hovered value; set invalid on failure, finalize on success
BaseHandleEnter ==
    /\ Running
    /\ kind = "rawlist"
    /\ LET hovered == At(choices, selected_choice_index)
       IN  IF Validates(validate, <<hovered.value>>)
           THEN /\ status' = [answered |-> TRUE, result |-> hovered.name]
                /\ exit_result' = hovered.value
                /\ invalid' = invalid
           ELSE /\ invalid' = TRUE
                /\ UNCHANGED <<status, exit_result>>
    /\ last' = "enter"
    /\ UNCHANGED <<windowVars, kind, raw, default, validate, error, choices,
                   selected_choice_index, kb>>

---------------------------------------------------------------------------
(* Handlers defined in the sources *)

\* variant: the jump key also marks the choice it lands on
JumpKeyMarking(key) ==
    /\ Running
    /\ kind = "rawlist"
    /\ BindingsFor(kb, key) # {}
    /\ selected_choice_index' = JumpTarget(kb, key)
    /\ choices' = ToggleAt(choices, JumpTarget(kb, key))
    /\ last' = key
    /\ UNCHANGED <<windowVars, kind, raw, default, validate, error, kb, status,
                   invalid, exit_result>>

\* rawlist.py:168-170: the handler of one jump key
JumpKey(key) ==
    /\ Running
    /\ kind = "rawlist"
    /\ BindingsFor(kb, key) # {}
    /\ selected_choice_index' = JumpTarget(kb, key)
    /\ last' = key
    /\ UNCHANGED <<windowVars, kind, raw, default, validate, error, choices, kb, status,
                   invalid, exit_result>>

\* variant: confirm without a selection is refused, as for single-select prompts
CheckboxHandleEnterRequiringSelection ==
    /\ Running
    /\ kind = "checkbox"
    /\ IF ResultValue(choices) = <<>>
       THEN /\ invalid' = TRUE
            /\ UNCHANGED <<status, exit_result>>
       ELSE /\ status' = [answered |-> TRUE, result |-> ResultName(choices)]
            /\ exit_result' = ResultValue(choices)
            /\ invalid' = invalid
    /\ last' = "enter"
    /\ UNCHANGED <<windowVars, kind, raw, default, validate, error, choices,
                   selected_choice_index, kb>>

\* checkbox.py:156-163: CheckboxPrompt._handle_enter
CheckboxHandleEnter ==
    /\ Running
    /\ kind = "checkbox"
    /\ status' = [answered |-> TRUE, result |-> ResultName(choices)]
    /\ exit_result' = ResultValue(choices)
    /\ last' = "enter"
    /\ UNCHANGED <<windowVars, kind, raw, default, validate, error, choices,
                   selected_choice_index, kb, invalid>>

\* the digit keys a user may press
Keys == {ToString(d) : d \in 1 .. MaxLen}

Next ==
    \/ HandleDown
    \/ HandleUp
    \/ ToggleCurrent
    \/ ToggleAll
    \/ BaseHandleEnter
    \/ \E key \in Keys : JumpKey(key)
    \/ CheckboxHandleEnter

Spec == Init /\ [][Next]_vars

---------------------------------------------------------------------------
(* Construction of a checkbox prompt followed at once by confirm, over a   *)
(* wider set of raw entries than the interactive specification uses: once  *)
(* toggling starts, where a flag came from no longer matters.              *)

\* entries of a checkbox choice list, with a dict that sets enabled to False
CheckboxEntriesAtConstruction ==
    CheckboxEntries \cup {RawDictEnabled(LabelOf(IntVal(2)), IntVal(2), FALSE)}

InitCheckbox ==
    /\ kind = "checkbox"
    /\ raw \in SeqsUpTo(CheckboxEntriesAtConstruction, MaxBoxes)
    /\ default \in CheckboxDefaults
    /\ validate \in CheckboxValidators
    /\ \E c \in {ControlInit(kind, raw, default)} :
           /\ error = c.error
           /\ choices = c.choices
           /\ selected_choice_index = c.selected_choice_index
    /\ kb = <<>>
    /\ status = [answered |-> FALSE, result |-> None]
    /\ invalid = FALSE
    /\ exit_result = None
    /\ last = "init"
    /\ DefaultWindow

NextCheckboxConfirm == CheckboxHandleEnter

SpecCheckboxConstruction == InitCheckbox /\ [][NextCheckboxConfirm]_vars

---------------------------------------------------------------------------
(* Vocabulary of the properties *)

\* the raw list holds at least one entry that is not a Separator
HasContent(rawChoices) ==
    \E p \in 1 .. Len(rawChoices) : ~IsSeparator(rawChoices[p].value)

\* the choice under the cursor
Hovered == At(choices, selected_choice_index)

\* indices of the choices whose enabled flag is set
EnabledIndices == {i \in Indices(choices) : At(choices, i).enabled}

\* 1-based rank of index i within the set S of indices
Rank(S, i) == Cardinality({j \in S : j <= i})

---------------------------------------------------------------------------
(* C1: for every choice list with at least one non-separator choice, in    *)
(* every state reachable by move(+1), move(-1) and rawlist jump keys, the  *)
(* cursor is a valid index into choices and the hovered choice is not a    *)
(* Separator, so a rawlist can always read its display_index.              *)
C1_CursorOnChoice ==
    HasContent(raw) =>
        /\ error = "none"
        /\ selected_choice_index \in Indices(choices)
        /\ ~IsSeparator(Hovered.value)
        /\ kind = "rawlist" => "display_index" \in DOMAIN Hovered

\* a jump key was pressed in a rawlist that has separators before and after the target
C1_Witness ==
    /\ kind = "rawlist"
    /\ last \in Keys
    /\ selected_choice_index > 0
    /\ selected_choice_index < Len(choices) - 1
    /\ IsSeparator(At(choices, selected_choice_index - 1).value)
    /\ IsSeparator(At(choices, selected_choice_index + 1).value)

---------------------------------------------------------------------------
(* C2: checkbox result contract: confirm yields exactly the values of the  *)
(* enabled choices in original order; no separator value, no disabled      *)
(* value, no reordering, no extra duplicates.                              *)
C2_ResultContract ==
    (kind = "checkbox" /\ status.answered) =>
        /\ Len(exit_result) = Cardinality(EnabledIndices)
        /\ \A i \in EnabledIndices :
               exit_result[Rank(EnabledIndices, i)] = At(choices, i).value
        /\ \A k \in 1 .. Len(exit_result) : ~IsSeparator(exit_result[k])

---------------------------------------------------------------------------
(* C3: checkbox confirm with nothing enabled and no validator completes    *)
(* the prompt in that step: answered becomes true, the result is empty,    *)
(* the invalid state is not entered.                                       *)
C3_EmptyConfirmCompletes ==
    [][(/\ Running
        /\ kind = "checkbox"
        /\ validate = "none"
        /\ EnabledIndices = {}
        /\ last' = "enter")
       => (/\ status'.answered
           /\ status'.result = <<>>
           /\ exit_result' = <<>>
           /\ ~invalid')]_vars

\* a checkbox without validator was confirmed with no choice enabled
C3_Witness ==
    /\ kind = "checkbox"
    /\ validate = "none"
    /\ last = "enter"
    /\ status.answered
    /\ EnabledIndices = {}
    /\ exit_result = <<>>

---------------------------------------------------------------------------
(* C4: confirm on a checkbox whose enabled values fail the validator does  *)
(* not finalize: answered stays false, no result is emitted, the invalid   *)
(* flag is set and the prompt stays interactive.                           *)
C4_ValidationFailureKeepsPrompt ==
    [][(/\ Running
        /\ kind = "checkbox"
        /\ ~Validates(validate, ResultValue(choices))
        /\ last' = "enter")
       => (/\ ~status'.answered
           /\ exit_result' = exit_result
           /\ invalid')]_vars

---------------------------------------------------------------------------
(* C5: rawlist indexing: the display_index values of the non-separator     *)
(* choices in order are 1, 2, ..., k; actual_index is the position in the  *)
(* full list; separators carry neither.                                    *)
C5_RawlistIndexing ==
    (kind = "rawlist" /\ error = "none") =>
        \A ns \in {NonSeparators(choices)} :
            \A i \in Indices(choices) :
                IF i \in ns
                THEN /\ At(choices, i).display_index = Rank(ns, i)
                     /\ At(choices, i).actual_index = i
                ELSE /\ "display_index" \notin DOMAIN At(choices, i)
                     /\ "actual_index" \notin DOMAIN At(choices, i)

\* a constructed rawlist with a leading separator and a separator between choices
C5_Witness ==
    /\ kind = "rawlist"
    /\ error = "none"
    /\ last = "init"
    /\ Len(choices) = 4
    /\ IsSeparator(At(choices, 0).value)
    /\ ~IsSeparator(At(choices, 1).value)
    /\ IsSeparator(At(choices, 2).value)
    /\ ~IsSeparator(At(choices, 3).value)
    /\ At(choices, 3).display_index = 2

---------------------------------------------------------------------------
(* C6: rawlist jump keys: exactly one key is bound per non-separator       *)
(* choice, none for separators, no key is shared; pressing the key of      *)
(* display index d puts the cursor on the one non-separator choice whose   *)
(* display_index is d, whatever the cursor was.                            *)
C6_JumpKey ==
    (kind = "rawlist" /\ error = "none") =>
        \A ns \in {NonSeparators(choices)} :
            /\ Len(kb) = Cardinality(ns)
            /\ \A b, c \in 1 .. Len(kb) : kb[b].key = kb[c].key => b = c
            /\ \A i \in ns :
                   \A key \in {ToString(At(choices, i).display_index)} :
                       /\ Cardinality(BindingsFor(kb, key)) = 1
                       /\ JumpTarget(kb, key) = i
            /\ last \in Keys =>
                   /\ selected_choice_index \in ns
                   /\ ToString(Hovered.display_index) = last

\* "2" was pressed on [Sep, x, y, z]: the cursor is on y at position 2
C6_Witness ==
    /\ kind = "rawlist"
    /\ Len(choices) = 4
    /\ NonSeparators(choices) = {1, 2, 3}
    /\ last = "2"
    /\ selected_choice_index = 2
    /\ Hovered.display_index = 2

---------------------------------------------------------------------------
(* C7: movement round trip: from every reachable cursor position move(+1)  *)
(* then move(-1), and move(-1) then move(+1), return the cursor to where   *)
(* it was, across wrap-around and runs of separators.                      *)
C7_MoveRoundTrip ==
    error = "none" =>
        /\ MoveIndex(choices, MoveIndex(choices, selected_choice_index, 1), -1)
               = selected_choice_index
        /\ MoveIndex(choices, MoveIndex(choices, selected_choice_index, -1), 1)
               = selected_choice_index

\* move(+1) has just wrapped from the last choice to the first one, stepping
\* over a trailing and a leading separator
C7_Witness ==
    /\ error = "none"
    /\ last = "down"
    /\ Cardinality(NonSeparators(choices)) >= 2
    /\ IsSeparator(At(choices, 0).value)
    /\ IsSeparator(At(choices, Len(choices) - 1).value)
    /\ selected_choice_index = Min(NonSeparators(choices))

---------------------------------------------------------------------------
(* C8: toggle round trip: toggle_current() twice with the cursor unchanged *)
(* restores the hovered choice's enabled flag, and one toggle changes      *)
(* nothing but that flag; all other choices keep their flags.              *)
C8_ToggleRoundTrip ==
    (kind = "checkbox" /\ error = "none") =>
        LET once == ToggleAt(choices, selected_choice_index)
            twice == ToggleAt(once, selected_choice_index)
        IN  /\ twice = choices
            /\ Len(once) = Len(choices)
            /\ At(once, selected_choice_index).enabled = ~Hovered.enabled
            /\ \A i \in Indices(choices) \ {selected_choice_index} :
                   At(once, i) = At(choices, i)

\* toggle_current() has just enabled the hovered choice while another stays disabled
C8_Witness ==
    /\ kind = "checkbox"
    /\ last = "toggle"
    /\ Hovered.enabled
    /\ \E i \in NonSeparators(choices) : ~At(choices, i).enabled

---------------------------------------------------------------------------
(* C9: a choice list with no non-separator choice (empty or all            *)
(* separators) is rejected at construction with InvalidArgument: the       *)
(* interactive loop is never entered, no scan runs past the list, and      *)
(* every constructed prompt has a legal cursor position.                   *)
C9_DegenerateRejected ==
    /\ ~HasContent(raw) =>
           /\ error = "InvalidArgument"
           /\ last = "init"
           /\ ~status.answered
    /\ error # "IndexError"
    /\ error = "none" => NonSeparators(choices) # {}

\* a rawlist built from separators only was rejected
C9_Witness ==
    /\ kind = "rawlist"
    /\ Len(raw) >= 2
    /\ ~HasContent(raw)
    /\ error = "InvalidArgument"

---------------------------------------------------------------------------
(* C10: right after construction the cursor is on the first non-separator  *)
(* choice whose value equals `default` when there is one; in particular a  *)
(* rawlist whose first non-separator choice has the default as its value   *)
(* starts on that first choice.  (The other half of the sentence, the      *)
(* start position when no value matches, is the subject of C16.)           *)
C10_InitialCursorOnDefault ==
    (error = "none" /\ last = "init") =>
        LET matching == {i \in NonSeparators(choices) : At(choices, i).value = default}
        IN  matching # {} => selected_choice_index = Min(matching)

---------------------------------------------------------------------------
(* C11: checkbox normalisation of enabled flags: the normalised list has   *)
(* the length and order of the input; the i-th choice is enabled exactly   *)
(* when the i-th raw entry is a dict that sets enabled to true; bare       *)
(* values and bare Separators start disabled; hence confirming right after *)
(* construction yields exactly the pre-enabled values in input order.      *)
C11_EnabledFromRaw ==
    (kind = "checkbox" /\ error = "none") =>
        \A pre \in {{p \in 1 .. Len(raw) :
                        raw[p].dict /\ "enabled" \in DOMAIN raw[p] /\ raw[p].enabled}} :
            /\ last = "init" =>
                   /\ Len(choices) = Len(raw)
                   /\ \A p \in 1 .. Len(raw) :
                          /\ choices[p].value = raw[p].value
                          /\ choices[p].enabled = (p \in pre)
                          /\ ~raw[p].dict => ~choices[p].enabled
            /\ last = "enter" =>
                   /\ Len(exit_result) = Cardinality(pre)
                   /\ \A p \in pre :
                          exit_result[Cardinality({q \in pre : q <= p})] = raw[p].value

\* [dict with enabled False, dict with enabled True, bare value] was confirmed at once
C11_Witness ==
    /\ kind = "checkbox"
    /\ last = "enter"
    /\ Len(raw) = 3
    /\ raw[1].dict /\ "enabled" \in DOMAIN raw[1] /\ ~raw[1].enabled
    /\ raw[2].dict /\ "enabled" \in DOMAIN raw[2] /\ raw[2].enabled
    /\ ~raw[3].dict
    /\ exit_result = <<raw[2].value>>

---------------------------------------------------------------------------
(* calculate_height as a function of its arguments and the terminal *)

\* percentages passed as "P%"
Percents == {0, 1, 3, 50, 58, 100, 116}

\* integer row counts passed
Rows == {-1, 0, 1, 10, 100}

\* values passed as height or max_height: unset, an integer, "P%", a bare
\* number in a str, the empty str, letters, a lone percent sign
HeightArguments ==
    {None}
        \cup {IntVal(n) : n \in Rows}
        \cup {PercentText(p) : p \in Percents}
        \cup {Text(Decimal(20)), Text(<<>>), Text(<<"a", "b", "c">>), Text(<<"%">>)}

InitHeight ==
    /\ height \in HeightArguments
    /\ max_height \in HeightArguments
    /\ offset \in 0 .. MaxOffset
    /\ term_lines \in 1 .. MaxLines
    /\ dimmension = Pending
    /\ kind = "none"
    /\ raw = <<>>
    /\ default = None
    /\ validate = "none"
    /\ error = "none"
    /\ choices = <<>>
    /\ selected_choice_index = 0
    /\ kb = <<>>
    /\ status = [answered |-> FALSE, result |-> None]
    /\ invalid = FALSE
    /\ exit_result = None
    /\ last = "none"

\* one call of calculate_height(height, max_height, offset)
CalculateHeight ==
    /\ dimmension = Pending
    /\ dimmension' = calculate_height(height, max_height, offset, term_lines)
    /\ UNCHANGED <<promptVars, height, max_height, offset, term_lines>>

NextHeight == CalculateHeight

SpecHeight == InitHeight /\ [][NextHeight]_vars

\* a str of one or more digits
IsNumberText(arg) ==
    /\ arg.tag = "text"
    /\ arg.chars # <<>>
    /\ \A i \in 1 .. Len(arg.chars) : IsDigit(arg.chars[i])

\* a str of one or more digits followed by a percent sign
IsPercentage(arg) ==
    /\ arg.tag = "text"
    /\ Len(arg.chars) >= 2
    /\ arg.chars[Len(arg.chars)] = "%"
    /\ \A i \in 1 .. Len(arg.chars) - 1 : IsDigit(arg.chars[i])

\* the P of "P%"
PercentOf(arg) == DigitsValue(SubSeq(arg.chars, 1, Len(arg.chars) - 1))

\* unset, an integer row count or a percentage string
Documented(arg) == arg = None \/ arg.tag = "int" \/ IsPercentage(arg)

\* a str that is neither a number nor a percentage
Malformed(arg) == arg.tag = "text" /\ ~IsNumberText(arg) /\ ~IsPercentage(arg)

\* C12: whenever calculate_height, given an unset, integer or percentage
\* height and max_height, returns a height that is not None, that height is
\* at most the max_height it returns, for every terminal and offset.
C12_HeightWithinMax ==
    (/\ dimmension.raised = "none"
     /\ Documented(height)
     /\ Documented(max_height)
     /\ dimmension.height # None)
        => dimmension.height.n <= dimmension.max_height.n

\* C13: for max_height unset, an integer row count or a percentage up to
\* 100%, the max_height calculate_height returns is at most
\* term_lines - offset.
C13_MaxWithinTerminal ==
    (/\ dimmension.raised = "none"
     /\ Documented(height)
     /\ Documented(max_height)
     /\ IsPercentage(max_height) => PercentOf(max_height) <= 100)
        => dimmension.max_height.n <= term_lines - offset

\* the rows an unset, integer or percentage argument stands for in the
\* reference computation, `unset` when it is None
ReferenceRows(arg, unset) ==
    IF arg = None THEN unset
    ELSE IF IsPercentage(arg)
         THEN IntVal(((term_lines * PercentOf(arg)) \div 100) - offset)
         ELSE arg

\* C14: for unset, integer (0 included) and percentage arguments,
\* calculate_height returns what the reference computation gives: max_height
\* is term_lines - offset when unset, floor(term_lines * P / 100) - offset
\* for "P%", the integer itself otherwise; height is None when unset and
\* follows the same rule otherwise, then is reduced to max_height if larger
\* and raised to 1 if negative.
C14_AgreesWithReference ==
    (dimmension # Pending /\ Documented(height) /\ Documented(max_height)) =>
        LET m == ReferenceRows(max_height, IntVal(term_lines - offset))
            h == ReferenceRows(height, None)
            reduced == IF h # None /\ h.n > m.n THEN m ELSE h
            clamped == IF reduced # None /\ reduced.n < 0 THEN IntVal(1) ELSE reduced
        IN  dimmension = Returned(clamped, m)

\* C15: a str that is neither a number nor a percentage (the empty str
\* included), passed as height or as max_height, makes calculate_height end
\* in InvalidArgument, whatever the other argument is.
C15_MalformedRejected ==
    (dimmension # Pending /\ (Malformed(height) \/ Malformed(max_height)))
        => dimmension = InvalidArgument

---------------------------------------------------------------------------
(* C16: a rawlist whose `default` equals the value of no choice starts on   *)
(* the choice whose display_index equals `default` when there is one (the   *)
(* cursor is that choice's actual_index), and on the first non-separator    *)
(* choice when `default` equals no display_index either.                    *)
C16_DefaultAsDisplayIndex ==
    (/\ kind = "rawlist"
     /\ error = "none"
     /\ last = "init"
     /\ \A p \in 1 .. Len(choices) : choices[p].value # default) =>
        \A ns \in {NonSeparators(choices)} :
            \A numbered \in {{i \in ns : IntVal(At(choices, i).display_index) = default}} :
                IF numbered # {}
                THEN \A i \in numbered : selected_choice_index = At(choices, i).actual_index
                ELSE selected_choice_index = Min(ns)

\* default 2 is the value of no choice and the number of the choice after a separator
C16_Witness ==
    /\ kind = "rawlist"
    /\ error = "none"
    /\ last = "init"
    /\ default = IntVal(2)
    /\ Len(choices) = 3
    /\ \A p \in 1 .. Len(choices) : choices[p].value # default
    /\ IsSeparator(At(choices, 1).value)
    /\ ~IsSeparator(At(choices, 2).value)
    /\ At(choices, 2).display_index = 2
    /\ selected_choice_index = 2

---------------------------------------------------------------------------
\* no choice of the list whose value is a Separator is enabled
NoSeparatorEnabled(chs) ==
    \A p \in 1 .. Len(chs) : IsSeparator(chs[p].value) => ~chs[p].enabled

(* C17: in a checkbox prompt no Separator choice is ever enabled, neither   *)
(* right after construction (whatever the raw entries, a dict with a        *)
(* Separator value and enabled set included) nor after any move, toggle or  *)
(* toggle_all; and toggle_all leaves every Separator choice as it was.      *)
C17_SeparatorsNeverEnabled ==
    [][kind = "checkbox" =>
           /\ NoSeparatorEnabled(choices)
           /\ NoSeparatorEnabled(choices')
           /\ last' = "toggle_all" =>
                  \A p \in 1 .. Len(choices) :
                      IsSeparator(choices[p].value) => choices'[p] = choices[p]]_vars

---------------------------------------------------------------------------
(* Rendering of one choice row; a segment is a (style, text) pair *)

\* glyph sequences imported from InquirerPy.enum (ASCII stand-ins)
INQUIRERPY_POINTER_SEQUENCE == ">"
INQUIRERPY_FILL_HEX_SEQUENCE == "#"
INQUIRERPY_EMPTY_HEX_SEQUENCE == "o"

\* n * " "
RECURSIVE Spaces(_)
Spaces(n) == IF n = 0 THEN "" ELSE " " \o Spaces(n - 1)

\* checkbox.py:42: self.pointer = "%s " % pointer, with the default pointer
CheckboxPointer == INQUIRERPY_POINTER_SEQUENCE \o " "

\* checkbox.py:76-78: the glyph of the enabled flag
CheckboxSymbol(choice) ==
    IF choice.enabled THEN INQUIRERPY_FILL_HEX_SEQUENCE \o " "
    ELSE INQUIRERPY_EMPTY_HEX_SEQUENCE \o " "

\* checkbox.py:69-84: InquirerPyCheckboxControl._get_normal_text
CheckboxNormalText(choice) ==
    <<<<"", Spaces(Len(CheckboxPointer))>>>>
        \o (IF ~IsSeparator(choice.value)
            THEN << <<"class:checkbox", CheckboxSymbol(choice)>>, <<"", choice.name>> >>
            ELSE << <<"class:separator", choice.name>> >>)

\* rawlist.py:138,135,144: the defaults of pointer, separator and marker
RawlistPointer == " "
RawlistSeparator == ")"
RawlistMarker == INQUIRERPY_POINTER_SEQUENCE

\* rawlist.py:70-86: InquirerPyRawlistControl._get_normal_text
RawlistNormalText(choice) ==
    << <<"", Spaces(Len(RawlistPointer))>>,
       <<"class:marker", IF choice.enabled THEN RawlistMarker ELSE " ">> >>
        \o (IF ~IsSeparator(choice.value)
            THEN << <<"", ToString(choice.display_index) \o RawlistSeparator \o " ">>,
                    <<"", choice.name>> >>
            ELSE << <<"class:separator", choice.name>> >>)

\* the row of a choice that is not under the cursor
NormalText(choice) ==
    IF kind = "rawlist" THEN RawlistNormalText(choice) ELSE CheckboxNormalText(choice)

(* C18: in normal mode the row of a Separator choice, in the checkbox and   *)
(* in the rawlist renderer alike, is the alignment padding followed by the  *)
(* separator's name under the separator style and nothing else: no          *)
(* checkbox glyph segment, no marker segment, no index segment, whatever    *)
(* the enabled flag of the separator.                                       *)
C18_SeparatorRows ==
    \A p \in 1 .. Len(choices) :
        IsSeparator(choices[p].value) =>
            \A row \in {NormalText(choices[p])} :
                /\ Len(row) = 2
                /\ row[1][1] = ""
                /\ row[2] = <<"class:separator", choices[p].name>>
                /\ \A k \in 1 .. Len(row) : row[k][1] \notin {"class:checkbox", "class:marker"}

---------------------------------------------------------------------------
(* C19: a rawlist jump key and move(+1) / move(-1) change the cursor only:  *)
(* the choices (order, values, names, enabled flags, display_index and      *)
(* actual_index) and the answered / result status are after the event what  *)
(* they were before it.                                                     *)
C19_CursorEventsFrame ==
    [][(last' \in Keys \cup {"down", "up"}) =>
           /\ choices' = choices
           /\ status' = status
           /\ exit_result' = exit_result]_vars

\* a jump key moved the cursor of a rawlist from the first choice, past a
\* separator, to the choice numbered 2
C19_Witness ==
    /\ kind = "rawlist"
    /\ Running
    /\ last = "2"
    /\ Len(choices) = 3
    /\ IsSeparator(At(choices, 1).value)
    /\ default = None
    /\ selected_choice_index = 2

============================================================================
